---- MODULE Spec2Model ----
(***************************************************************************)
(* filez: the directory poller thread, the FileWatcher shared state and    *)
(* the render/input loop of src/src/main.rs.                               *)
(*                                                                         *)
(* A path is the sequence of its components: "/" is <<"/">>, "/a/b" is     *)
(* <<"/", "a", "b">> and the empty PathBuf::from("") is << >>.             *)
(***************************************************************************)
EXTENDS Integers, Sequences, FiniteSets, TLC

VARIABLES
    path,           \* FileWatcher.path  (the requested directory)
    path2,          \* FileWatcher.path2 (the directory the poller last published)
    filez,          \* FileWatcher.filez (the published listing)
    ppc,            \* poller thread: position in its loop
    p,              \* poller thread: local p
    scan_filez,     \* poller thread: local filez, before the sort
    scan_ok,        \* history: fs::read_dir of this poll cycle returned Ok
    vcpc,           \* main thread: position in its loop
    selected,       \* main: selected
    scroll,         \* main: scroll
    selected_hist,  \* main: selected_hist
    old_path,       \* main: old_path of the running ascend / descend
    fs,             \* the filesystem: the removable nodes that exist now
    filez_src,      \* history: the path whose scan filez holds
    filez_gen,      \* history: parity of the poll cycle that wrote filez
    path2_gen,      \* history: parity of the poll cycle that wrote path2
    trip,           \* history: the last ascend (where from, with which view),
                    \* kept until a navigation that is not the way back
    keys,           \* the key and mouse events handled so far
    resolved,       \* history: "hit" or "miss" right after an ascend or a
                    \* descend has looked up selected_hist, "" otherwise
    synced,         \* history: when the running ascend / descend began, path2
                    \* was old_path and the requested path was another one
    shown           \* history: the entry the last render pass drew highlighted
                    \* (its path) while main is at getch, the empty path when it
                    \* drew none and once the event is taken

vars == << path, path2, filez, ppc, p, scan_filez, scan_ok, vcpc, selected, scroll,
           selected_hist, old_path, fs, filez_src, filez_gen, path2_gen, trip,
           keys, resolved, synced, shown >>

shared   == << path, path2, filez >>
pollerv  == << ppc, p, scan_filez, scan_ok >>
ghostpub == << filez_src, filez_gen, path2_gen >>
mainv    == << vcpc, selected, scroll, selected_hist, old_path, trip, keys,
              resolved, synced, shown >>

----------------------------------------------------------------------------
(* Bounds of the model *)

\* win.get_max_y(): the number of terminal rows
MaxY == 4
\* the key and mouse events the user sends in one run
MaxKeys == 4

(* Program constants *)
TYPE_FILE == 1
TYPE_DIR == 2

----------------------------------------------------------------------------
(* PathBuf *)

Root == << "/" >>
EmptyPath == << >>
NoName == "<none>"

\* PathBuf::pop: drops the last component; leaves "/" and "" as they are
Pop(q) == IF q = Root \/ q = EmptyPath THEN q ELSE SubSeq(q, 1, Len(q) - 1)

\* PathBuf::push of a relative name
Push(q, name) == Append(q, name)

\* Path::file_name: None for "/" and ""
FileName(q) == IF q = Root \/ q = EmptyPath THEN NoName ELSE q[Len(q)]

----------------------------------------------------------------------------
(* The filesystem the program runs on *)

Node(q, typ, utf8) == [path |-> q, typ |-> typ, utf8 |-> utf8]

\* every node that can exist below "/"
Nodes ==
    { Node(<< "/", "a" >>, TYPE_DIR, TRUE),
      Node(<< "/", "b" >>, TYPE_DIR, TRUE),
      Node(<< "/", "f" >>, TYPE_FILE, TRUE),
      Node(<< "/", "a", "a" >>, TYPE_DIR, TRUE),
      Node(<< "/", "a", "f" >>, TYPE_FILE, TRUE),
      Node(<< "/", "a", "a", "a" >>, TYPE_FILE, TRUE),
      Node(<< "/", "a", "a", "f" >>, TYPE_FILE, TRUE),
      Node(<< "/", "a", "x" >>, TYPE_FILE, FALSE) }

\* the nodes that other programs create and delete while filez runs
Removable == { << "/", "a", "a" >>, << "/", "a", "x" >> }

IsPrefix(q, r) == Len(q) <= Len(r) /\ SubSeq(r, 1, Len(q)) = q

Present(f, q) == \A n \in Nodes : (n.path \in Removable /\ IsPrefix(n.path, q)) => n.path \in f

Exists(f, q) == q = Root \/ (\E n \in Nodes : n.path = q /\ Present(f, q))

IsDirPath(f, q) == q = Root \/ (\E n \in Nodes : n.path = q /\ n.typ = TYPE_DIR /\ Present(f, q))

Children(f, q) == { n \in Nodes : Len(n.path) = Len(q) + 1 /\ IsPrefix(q, n.path) /\ Present(f, n.path) }

\* fs::read_dir: the children in any order the filesystem enumerates them
Enumerations(S) == { s \in [1..Cardinality(S) -> S] : \A i, j \in 1..Cardinality(S) : s[i] = s[j] => i = j }

----------------------------------------------------------------------------
(* FileStat *)

\* Into<FileStat> for PathBuf
FileStat(n) == [typ |-> n.typ, path |-> n.path, file_name |-> FileName(n.path)]

is_dir(e) == e.typ = TYPE_DIR
is_file(e) == e.typ = TYPE_FILE

\* bool::partial_cmp: false < true; -1 is Less, 0 Equal, 1 Greater
BoolCmp(x, y) == IF x = y THEN 0 ELSE IF y THEN -1 ELSE 1

\* a variant of DirCmp: a and b swapped, so that files sort first
DirCmpSwapped(a, b) == BoolCmp(is_dir(a), is_dir(b))

\* the comparator given to sort_by: |a, b| b.is_dir().partial_cmp(&a.is_dir())
DirCmp(a, b) == BoolCmp(is_dir(b), is_dir(a))

\* slice::sort_by is a stable sort: x goes before the first element it is Less than
RECURSIVE InsertSorted(_, _)
InsertSorted(s, x) ==
    IF s = << >> THEN << x >>
    ELSE IF DirCmp(x, Head(s)) < 0 THEN << x >> \o s
    ELSE << Head(s) >> \o InsertSorted(Tail(s), x)

RECURSIVE SortByDir(_)
SortByDir(s) ==
    IF s = << >> THEN << >>
    ELSE InsertSorted(SortByDir(SubSeq(s, 1, Len(s) - 1)), s[Len(s)])

----------------------------------------------------------------------------
(* The poller thread (thread::spawn, lines 258-274) *)

\* the process ends when main returns or panics; the poller ends with it
MainRunning == vcpc \notin { "exited", "crashed" }

\* let p = thread_file_watcher.path();
PollRead ==
    /\ MainRunning
    /\ ppc = "sleep"
    /\ p' = path
    /\ ppc' = "scan"
    /\ UNCHANGED << shared, scan_filez, scan_ok, mainv, fs, ghostpub >>

\* fs::read_dir: Ok for a directory that exists
ReadDirOk(f, q) == IsDirPath(f, q)

\* a variant of UnreadablePc: fs::read_dir(..).unwrap() would end the thread
UnreadablePcUnwrap == "dead"

\* if let Ok(entries) = fs::read_dir(..): an Err is skipped and the cycle goes on
UnreadablePc == "publish"

\* the read_dir loop: an unreadable directory leaves the local filez empty;
\* entry.into() panics on a name that is not UTF-8 and the thread dies
PollScan ==
    /\ MainRunning
    /\ ppc = "scan"
    /\ IF ReadDirOk(fs, p)
       THEN \E enum \in Enumerations(Children(fs, p)) :
              IF \E i \in 1..Len(enum) : ~enum[i].utf8
              THEN /\ ppc' = "dead"
                   /\ scan_filez' = << >>
              ELSE /\ ppc' = "publish"
                   /\ scan_filez' = [i \in 1..Len(enum) |-> FileStat(enum[i])]
       ELSE /\ ppc' = UnreadablePc
            /\ scan_filez' = << >>
    /\ scan_ok' = ReadDirOk(fs, p)
    /\ UNCHANGED << shared, p, mainv, fs, ghostpub >>

\* filez.sort_by(...); thread_file_watcher.set_filez(...): the local filez moves
\* into the closure
PollSetFilez ==
    /\ MainRunning
    /\ ppc = "publish"
    /\ filez' = SortByDir(scan_filez)
    /\ filez_src' = p
    /\ filez_gen' = 1 - filez_gen
    /\ scan_filez' = << >>
    /\ ppc' = "set_path2"
    /\ UNCHANGED << path, path2, p, scan_ok, mainv, fs, path2_gen >>

\* a variant of PollSetPath2: path is read a second time for path2
PollSetPath2Reread ==
    /\ MainRunning
    /\ ppc = "set_path2"
    /\ path2' = path
    /\ path2_gen' = filez_gen
    /\ p' = EmptyPath
    /\ ppc' = "sleep"
    /\ UNCHANGED << path, filez, scan_filez, scan_ok, mainv, fs, filez_src, filez_gen >>

\* thread_file_watcher.set_path2(...): p moves into the closure, then the loop
\* sleeps again
PollSetPath2 ==
    /\ MainRunning
    /\ ppc = "set_path2"
    /\ path2' = p
    /\ path2_gen' = filez_gen
    /\ p' = EmptyPath
    /\ ppc' = "sleep"
    /\ UNCHANGED << path, filez, scan_filez, scan_ok, mainv, fs, filez_src, filez_gen >>

Poller == PollRead \/ PollScan \/ PollSetFilez \/ PollSetPath2

----------------------------------------------------------------------------
(* The main thread: the render pass (lines 278-345) *)

View(sel, scr) == [selected |-> sel, scroll |-> scr]

\* the sentinel for a panic inside the closure given to unwrap_or_else
Panic == [selected |-> -1000, scroll |-> -1000]

\* the rows the loop draws: i in 0..max_y-2, entry i+scroll; entry.metadata()
\* unwraps fs::metadata, which fails for an entry that no longer exists
RenderPanics(f, fz, scr) ==
    \E i \in 0..(MaxY - 3) :
        /\ i + scr >= 0
        /\ i + scr < Len(fz)
        /\ ~Exists(f, fz[i + scr + 1].path)

\* i32::clamp
Clamp(x, lo, hi) == IF x < lo THEN lo ELSE IF x > hi THEN hi ELSE x

\* if filez.len() > 0 { selected = selected.clamp(0, filez.len() as i32-1); }
ClampSelected(sel, len) == IF len > 0 THEN Clamp(sel, 0, len - 1) ELSE sel

\* a variant of ScrollDown: the loop stops one row early
ScrollDownShort(sel, scr) == IF sel > MaxY - 3 + scr THEN sel - (MaxY - 2) ELSE scr

\* while selected > win.get_max_y()-3+scroll {scroll += 1;}
ScrollDown(sel, scr) == IF sel > MaxY - 3 + scr THEN sel - (MaxY - 3) ELSE scr

\* while selected < scroll {scroll -= 1;}
ScrollUp(sel, scr) == IF sel < scr THEN sel ELSE scr

AutoScroll(sel, scr) == ScrollUp(sel, ScrollDown(sel, scr))

\* a variant of HistInsert: the map keeps the new entry only
HistInsertAlone(h, k, v) == [q \in { k } |-> v]

\* HashMap::insert
HistInsert(h, k, v) == [q \in DOMAIN h \cup { k } |-> IF q = k THEN v ELSE h[q]]

\* a variant of HistSave: the selected index is stored as the scroll offset too
HistSaveSelectedTwice(h, pth, sel, scr) == HistInsert(h, pth, View(sel, sel))

\* selected_hist.insert(path.to_str().unwrap().to_string(), View{selected,scroll})
HistSave(h, pth, sel, scr) == HistInsert(h, pth, View(sel, scr))

\* if i+scroll == selected { win.attron(A_REVERSE); } on a row that is drawn
Highlighted(fz, sel, scr) ==
    IF sel >= 0 /\ sel < Len(fz) /\ sel >= scr /\ sel <= scr + MaxY - 3
    THEN fz[sel + 1].path
    ELSE EmptyPath

Render ==
    /\ vcpc = "render"
    /\ IF RenderPanics(fs, filez, scroll)
       THEN /\ vcpc' = "crashed"
            /\ UNCHANGED << selected, scroll, selected_hist, resolved, shown >>
       ELSE LET sel == ClampSelected(selected, Len(filez))
                scr == AutoScroll(sel, scroll)
            IN  /\ selected' = sel
                /\ scroll' = scr
                /\ selected_hist' = HistSave(selected_hist, path, sel, scr)
                /\ resolved' = ""
                /\ shown' = Highlighted(filez, selected, scroll)
                /\ vcpc' = "getch"
    /\ UNCHANGED << shared, pollerv, old_path, fs, ghostpub, trip, keys, synced >>

----------------------------------------------------------------------------
(* The main thread: win.getch() and the commands (lines 347-437) *)

NoTrip == [from |-> EmptyPath, view |-> View(0, 0)]

\* the loop condition of the spin-wait, negated:
\* while file_watcher.path2().to_str() == old_path.to_str() { }
WaitDone(ack, old) == ack # old

\* a variant of FallbackView: the index found goes to selected only
FallbackViewSelectedOnly(fz, old) ==
    IF fz = << >> \/ FileName(old) = NoName THEN View(0, 0)
    ELSE LET hits == { i \in 1..Len(fz) : fz[i].file_name = FileName(old) }
         IN  IF hits = { } THEN View(0, 0)
             ELSE View((CHOOSE j \in hits : \A k \in hits : j <= k) - 1, 0)

\* the closure of unwrap_or_else: the first entry named like old_path's last
\* component; old_path.file_name().unwrap() runs once per entry looked at
FallbackView(fz, old) ==
    IF fz = << >> THEN View(0, 0)
    ELSE IF FileName(old) = NoName THEN Panic
    ELSE LET hits == { i \in 1..Len(fz) : fz[i].file_name = FileName(old) }
         IN  IF hits = { } THEN View(0, 0)
             ELSE LET i == CHOOSE j \in hits : \A k \in hits : j <= k
                  IN  View(i - 1, i - 1)

\* a variant of Resolve: the history is not consulted
ResolveNoHistory(h, pth, fz, old) == FallbackView(fz, old)

\* selected_hist.get(path).copied().unwrap_or_else(...)
Resolve(h, pth, fz, old) == IF pth \in DOMAIN h THEN h[pth] ELSE FallbackView(fz, old)

\* win.getch() hands over one more event of the user
GetEvent ==
    /\ vcpc = "getch"
    /\ keys < MaxKeys
    /\ keys' = keys + 1

\* 'q'
KeyQuit ==
    /\ vcpc = "getch"
    /\ vcpc' = "exited"
    /\ shown' = EmptyPath
    /\ UNCHANGED << shared, pollerv, selected, scroll, selected_hist, old_path,
                    fs, ghostpub, trip, keys, resolved, synced >>

\* getch returns None, or a key no branch handles
NoInput ==
    /\ vcpc = "getch"
    /\ vcpc' = "render"
    /\ shown' = EmptyPath
    /\ UNCHANGED << shared, pollerv, selected, scroll, selected_hist, old_path,
                    fs, ghostpub, trip, keys, resolved, synced >>

\* '\x08': old_path = path(); set_path(pop)
KeyBackspace ==
    /\ GetEvent
    /\ old_path' = path
    /\ path' = Pop(path)
    /\ trip' = IF Pop(path) # path
               THEN [from |-> path, view |-> View(selected, scroll)]
               ELSE NoTrip
    /\ synced' = (path2 = path /\ Pop(path) # path)
    /\ vcpc' = "asc_wait"
    /\ shown' = EmptyPath
    /\ UNCHANGED << path2, filez, pollerv, selected, scroll, selected_hist,
                    fs, ghostpub, resolved >>

\* the spin-wait of the ascend ends
AscWait ==
    /\ vcpc = "asc_wait"
    /\ WaitDone(path2, old_path)
    /\ vcpc' = "asc_resolve"
    /\ UNCHANGED << shared, pollerv, selected, scroll, selected_hist, old_path,
                    fs, ghostpub, trip, keys, resolved, synced, shown >>

\* the new view of an ascend or a descend, or the panic of the closure
ApplyView(nview) ==
    IF nview = Panic
    THEN /\ vcpc' = "crashed"
         /\ UNCHANGED << selected, scroll >>
    ELSE /\ vcpc' = "render"
         /\ selected' = nview.selected
         /\ scroll' = nview.scroll

AscResolve ==
    /\ vcpc = "asc_resolve"
    /\ ApplyView(Resolve(selected_hist, path, filez, old_path))
    /\ resolved' = IF path \in DOMAIN selected_hist THEN "hit" ELSE "miss"
    /\ old_path' = EmptyPath
    /\ synced' = FALSE
    /\ UNCHANGED << shared, pollerv, selected_hist, fs, ghostpub, trip, keys, shown >>

\* '\x0a': filez()[selected as usize] panics out of range; a directory is
\* entered, anything else is handed to the launcher
KeyEnter ==
    /\ GetEvent
    /\ IF selected < 0 \/ selected >= Len(filez)
       THEN /\ vcpc' = "crashed"
            /\ UNCHANGED << path, old_path, trip, synced >>
       ELSE LET f == filez[selected + 1]
            IN  IF is_dir(f)
                THEN /\ old_path' = path
                     /\ path' = Push(path, f.file_name)
                     /\ vcpc' = "desc_wait"
                     /\ trip' = IF Push(path, f.file_name) = trip.from THEN trip ELSE NoTrip
                     /\ synced' = (path2 = path)
                ELSE /\ vcpc' = "render"
                     /\ UNCHANGED << path, old_path, trip, synced >>
    /\ shown' = EmptyPath
    /\ UNCHANGED << path2, filez, pollerv, selected, scroll, selected_hist,
                    fs, ghostpub, resolved >>

\* the spin-wait of the descend ends
DescWait ==
    /\ vcpc = "desc_wait"
    /\ WaitDone(path2, old_path)
    /\ vcpc' = "desc_resolve"
    /\ UNCHANGED << shared, pollerv, selected, scroll, selected_hist, old_path,
                    fs, ghostpub, trip, keys, resolved, synced, shown >>

DescResolve ==
    /\ vcpc = "desc_resolve"
    /\ ApplyView(Resolve(selected_hist, path, filez, old_path))
    /\ resolved' = IF path \in DOMAIN selected_hist THEN "hit" ELSE "miss"
    /\ old_path' = EmptyPath
    /\ synced' = FALSE
    /\ UNCHANGED << shared, pollerv, selected_hist, fs, ghostpub, trip, keys, shown >>

\* KeyMouse: bstate & 65536 is wheel up, bstate & 2097152 is wheel down
MouseWheel ==
    /\ GetEvent
    /\ \E d \in { -1, 1 } : scroll' = scroll + d
    /\ vcpc' = "render"
    /\ shown' = EmptyPath
    /\ UNCHANGED << shared, pollerv, selected, selected_hist, old_path,
                    fs, ghostpub, trip, resolved, synced >>

\* a variant of KeyDown: the handler also pops the requested path
KeyDownPopsPath ==
    /\ GetEvent
    /\ selected' = selected + 1
    /\ path' = Pop(path)
    /\ vcpc' = "render"
    /\ shown' = EmptyPath
    /\ UNCHANGED << path2, filez, pollerv, scroll, selected_hist, old_path,
                    fs, ghostpub, trip, resolved, synced >>

\* KeyDown: selected += 1
KeyDown ==
    /\ GetEvent
    /\ selected' = selected + 1
    /\ vcpc' = "render"
    /\ shown' = EmptyPath
    /\ UNCHANGED << shared, pollerv, scroll, selected_hist, old_path,
                    fs, ghostpub, trip, resolved, synced >>

\* KeyUp: selected -= 1
KeyUp ==
    /\ GetEvent
    /\ selected' = selected - 1
    /\ vcpc' = "render"
    /\ shown' = EmptyPath
    /\ UNCHANGED << shared, pollerv, scroll, selected_hist, old_path,
                    fs, ghostpub, trip, resolved, synced >>

Main == Render \/ KeyQuit \/ NoInput \/ KeyBackspace \/ AscWait \/ AscResolve
          \/ KeyEnter \/ DescWait \/ DescResolve \/ MouseWheel \/ KeyDown \/ KeyUp

----------------------------------------------------------------------------
(* Other programs change the filesystem *)

FsChange ==
    /\ MainRunning
    /\ \E q \in Removable : fs' = IF q \in fs THEN fs \ { q } ELSE fs \cup { q }
    /\ UNCHANGED << shared, pollerv, mainv, ghostpub >>

----------------------------------------------------------------------------
(* The specification *)

\* the directory filez is started in: args.nth(1), or current_dir()
StartPaths == { Root, << "/", "a" >> }

\* FileWatcher::new and the locals of main; the named directory exists
Init ==
    /\ fs \in SUBSET Removable
    /\ path \in { q \in StartPaths : IsDirPath(fs, q) }
    /\ path2 = EmptyPath
    /\ filez = << >>
    /\ ppc = "sleep"
    /\ p = EmptyPath
    /\ scan_filez = << >>
    /\ scan_ok = TRUE
    /\ vcpc = "render"
    /\ selected = 0
    /\ scroll = 0
    /\ selected_hist = << >>
    /\ old_path = EmptyPath
    /\ filez_src = EmptyPath
    /\ filez_gen = 0
    /\ path2_gen = 0
    /\ trip = NoTrip
    /\ keys = 0
    /\ resolved = ""
    /\ synced = FALSE
    /\ shown = EmptyPath

Next == Main \/ Poller \/ FsChange

Spec == Init /\ [][Next]_vars

\* the poller and the main loop both keep running: the threads are scheduled
FairSpec == Spec /\ WF_vars(Poller) /\ WF_vars(Main)

----------------------------------------------------------------------------
(* Claims *)

InWaitDone == vcpc \in { "asc_resolve", "desc_resolve" }

\* C1: when the convergence wait of an ascend or a descend returns, path2
\* equals the requested path and the published snapshot is a scan of that
\* path (never of the old directory, never the initial empty placeholder).
C1_WaitReturnsFresh == InWaitDone => (path2 = path /\ filez_src = path)

\* C2: the publish is atomic over both fields: the snapshot and the
\* acknowledged path a reader can see always come from the same poll cycle.
C2_AtomicPublish == filez_gen = path2_gen

InWait == vcpc \in { "asc_wait", "desc_wait" }

\* C3: provided the poller keeps completing cycles, every ascend and every
\* descend completes: the wait ends and main is back at the top of its loop.
C3_CommandsComplete == ([]<><<PollSetPath2>>_vars) => (InWait ~> (vcpc = "render"))

\* C4: once main has requested a path and leaves it alone, whenever path2
\* equals the requested path the published snapshot is a scan of that path.
C4_Convergence == path2 = path => filez_src = path

RenderPass == vcpc = "render" /\ vcpc' = "getch"

\* C5: an ascend from a directory followed by the descend back into it sets
\* selected and scroll to the view the directory had when it was left.
C5_AscendDescendRestores ==
    [][ (vcpc = "desc_resolve" /\ vcpc' # "desc_resolve" /\ path = trip.from)
        => ( /\ vcpc' = "render"
             /\ selected' = trip.view.selected
             /\ scroll' = trip.view.scroll ) ]_vars

\* main is back in the directory it ascended from, with the view it left there,
\* which is not the view of a first visit
C5_Witness ==
    /\ vcpc = "render"
    /\ resolved = "hit"
    /\ path = trip.from
    /\ View(selected, scroll) = trip.view
    /\ trip.view # View(0, 0)
    /\ selected # scroll

\* C6: every render pass saves the resulting view under the path, and an
\* ascend or descend that arrives at a path with a history entry sets selected
\* and scroll to exactly that entry.
C6_HistoryRestore ==
    /\ [][ RenderPass
           => ( /\ path \in DOMAIN selected_hist'
                /\ selected_hist'[path] = View(selected', scroll') ) ]_vars
    /\ [][ (InWaitDone /\ vcpc' # vcpc /\ path \in DOMAIN selected_hist)
           => ( /\ vcpc' = "render"
                /\ View(selected', scroll') = selected_hist[path] ) ]_vars

\* main has ascended to a path with a history entry and holds that entry as its
\* view, where the position of the directory it left would give another view
C6_Witness ==
    /\ vcpc = "render"
    /\ resolved = "hit"
    /\ trip # NoTrip
    /\ path = Pop(trip.from)
    /\ path \in DOMAIN selected_hist
    /\ View(selected, scroll) = selected_hist[path]
    /\ filez_src = path
    /\ FallbackView(filez, trip.from) \notin { View(selected, scroll), Panic }

\* C7: at the end of every render pass selected is not negative, is 0 when the
\* rendered snapshot is empty, and is len-1 when it was >= len before.
C7_Clamping ==
    [][ RenderPass
        => ( /\ selected' >= 0
             /\ (Len(filez) = 0 => selected' = 0)
             /\ ((Len(filez) > 0 /\ selected >= Len(filez)) => selected' = Len(filez) - 1) ) ]_vars

\* C8: an Enter command never fails with an out-of-range index (at getch, only
\* the indexing of filez() by selected can make main panic).
C8_EnterIndexValid == [][ vcpc = "getch" => vcpc' # "crashed" ]_vars

PollerStep == ppc' # ppc

SeqSet(s) == { s[i] : i \in 1..Len(s) }

\* every directory entry comes before every other entry
DirsFirst(s) == \A i, j \in 1..Len(s) : (i < j /\ is_dir(s[j])) => is_dir(s[i])

\* two entries of the same group are in t in the order they have in s
KeepsGroupOrder(s, t) ==
    \A i, j \in 1..Len(s) :
        (i < j /\ is_dir(s[i]) = is_dir(s[j]))
        => \E k, l \in 1..Len(t) : k < l /\ t[k] = s[i] /\ t[l] = s[j]

\* C9: the scan holds exactly the children of the directory, and the published
\* snapshot holds exactly the scanned entries, directories first, each group
\* in enumeration order.
C9_SnapshotOrdering ==
    /\ [][ (ppc = "scan" /\ ppc' = "publish" /\ ReadDirOk(fs, p))
           => ( /\ SeqSet(scan_filez') = { FileStat(n) : n \in Children(fs, p) }
                /\ Len(scan_filez') = Cardinality(Children(fs, p)) ) ]_vars
    /\ [][ (ppc = "publish" /\ PollerStep)
           => ( /\ Len(filez') = Len(scan_filez)
                /\ SeqSet(filez') = SeqSet(scan_filez)
                /\ DirsFirst(filez')
                /\ KeepsGroupOrder(scan_filez, filez') ) ]_vars

\* a published snapshot of three entries: the two directories first, in an
\* order that is not the alphabetical one, then the file
C9_Witness ==
    /\ ppc = "set_path2"
    /\ Len(filez) = 3
    /\ filez[1].file_name = "b"
    /\ filez[2].file_name = "a"
    /\ is_file(filez[3])

\* C10: a poll cycle whose directory cannot be opened goes on, publishes an
\* empty snapshot and that path as path2, and returns to the top of the loop.
C10_UnreadableEmpty ==
    /\ [][ (ppc = "scan" /\ PollerStep /\ ~ReadDirOk(fs, p))
           => (ppc' = "publish" /\ scan_filez' = << >>) ]_vars
    /\ [][ (ppc = "publish" /\ PollerStep /\ ~scan_ok)
           => (ppc' = "set_path2" /\ filez' = << >> /\ filez_src' = p) ]_vars
    /\ [][ (ppc = "set_path2" /\ PollerStep /\ ~scan_ok)
           => (ppc' = "sleep" /\ path2' = p /\ filez = << >> /\ filez_src = p) ]_vars

\* the cycle for the removed directory /a/a is over: empty snapshot, path2 set
C10_Witness ==
    /\ ppc = "sleep"
    /\ ~scan_ok
    /\ MainRunning
    /\ path2 = << "/", "a", "a" >>
    /\ filez_src = path2
    /\ filez = << >>

AscMiss == vcpc = "asc_resolve" /\ vcpc' # vcpc /\ path \notin DOMAIN selected_hist

\* the positions (from 1) of the entries named like the last component of old
NamedLike(fz, old) == { i \in 1..Len(fz) : fz[i].file_name = old[Len(old)] }

C12_DescendFallbackZero ==
    [][ (vcpc = "desc_resolve" /\ vcpc' # vcpc /\ path \notin DOMAIN selected_hist)
        => (vcpc' = "render" /\ selected' = 0 /\ scroll' = 0) ]_vars

\* C13: a poll cycle reads path once; what it scans, the snapshot it publishes
\* and the path2 it publishes all belong to that one path, whatever main does
\* to path meanwhile; the next cycle starts from the path main has set.
C13_CycleUsesOnePath ==
    /\ [][ (ppc = "sleep" /\ PollerStep) => p' = path ]_vars
    /\ [][ (ppc # "sleep" /\ ~(ppc = "set_path2" /\ PollerStep)) => p' = p ]_vars
    /\ [][ (ppc = "scan" /\ ppc' = "publish")
           => SeqSet(scan_filez') \subseteq { FileStat(n) : n \in Children(fs, p) } ]_vars
    /\ [][ (ppc = "publish" /\ PollerStep)
           => (filez' = SortByDir(scan_filez) /\ filez_src' = p) ]_vars
    /\ [][ (ppc = "set_path2" /\ PollerStep)
           => (path2' = p /\ filez_src = p /\ filez' = filez /\ ppc' = "sleep") ]_vars

\* main has requested another path while the cycle for old_path was running:
\* the cycle has published the listing of old_path and is about to publish
\* old_path as path2
C13_Witness ==
    /\ InWait
    /\ synced
    /\ ppc = "set_path2"
    /\ p = old_path
    /\ p # path
    /\ filez_src = p
    /\ filez # << >>

\* C14: at the end of every render pass over a snapshot that is not empty, on
\* a terminal of at least 3 rows, scroll <= selected <= scroll + (rows - 3).
C14_SelectionVisible ==
    [][ (RenderPass /\ Len(filez) > 0 /\ MaxY >= 3)
        => (scroll' <= selected' /\ selected' <= scroll' + (MaxY - 3)) ]_vars

\* the cursor went down past the last row and the pass scrolled after it
C14_Witness ==
    /\ vcpc = "getch"
    /\ Len(filez) = 3
    /\ selected = 2
    /\ scroll > 0
    /\ scroll = selected - (MaxY - 3)

\* C15: a render pass overwrites the entry of selected_hist for the path with
\* the view the pass ends with and leaves every other entry as it is; no step
\* removes a key.
C15_HistoryBookkeeping ==
    /\ [][ RenderPass
           => ( /\ DOMAIN selected_hist' = DOMAIN selected_hist \cup { path }
                /\ selected_hist'[path] = View(selected', scroll')
                /\ \A q \in DOMAIN selected_hist \ { path } :
                       selected_hist'[q] = selected_hist[q] ) ]_vars
    /\ [][ DOMAIN selected_hist \subseteq DOMAIN selected_hist' ]_vars

\* two directories have been rendered: the entry of the current one holds the
\* current view, the entry of the other one holds the view it was left with
C15_Witness ==
    /\ vcpc = "getch"
    /\ Cardinality(DOMAIN selected_hist) = 2
    /\ selected_hist[path] = View(selected, scroll)
    /\ \E q \in DOMAIN selected_hist \ { path } :
           /\ selected_hist[q] # View(0, 0)
           /\ selected_hist[q] # selected_hist[path]

MainStep == vcpc' # vcpc

\* C16: path is written only by an ascend or a descend; filez and path2 are
\* written only by the poller; cursor keys, the mouse wheel, a render pass and
\* the opening of an entry that is not a directory leave all three alone.
C16_FieldOwnership ==
    /\ [][ path' # path
           => (vcpc = "getch" /\ vcpc' \in { "asc_wait", "desc_wait" }) ]_vars
    /\ [][ (filez' # filez \/ path2' # path2) => (PollerStep /\ ~MainStep) ]_vars
    /\ [][ (MainStep /\ vcpc' \notin { "asc_wait", "desc_wait" })
           => (path' = path /\ path2' = path2 /\ filez' = filez) ]_vars

\* the first event was KeyDown, in a directory whose listing is published
C16_Witness ==
    /\ vcpc = "render"
    /\ keys = 1
    /\ resolved = ""
    /\ selected = 1
    /\ scroll = 0
    /\ path2 = path
    /\ filez_src = path
    /\ Len(filez) >= 2

\* C17: the poller thread never ends while main is running.
C17_PollerNeverStops == MainRunning => ppc # "dead"

\* C18: when path2 was old_path at the start of the wait and the requested
\* path is another one, then at the end of the wait path2 is the requested
\* path and the snapshot is a scan of it.
C18_OrderedWaitFresh == (InWaitDone /\ synced) => (path2 = path /\ filez_src = path)

\* the Enter handler has run without a panic: a descend or an open
EnterStep ==
    /\ vcpc = "getch"
    /\ keys' # keys
    /\ selected' = selected
    /\ scroll' = scroll
    /\ vcpc' \in { "desc_wait", "render" }

\* C19: the entry Enter acts on is the entry the last render pass drew
\* highlighted.
C19_EnterActsOnShown ==
    [][ (EnterStep /\ shown # EmptyPath) => filez[selected + 1].path = shown ]_vars

\* C20: scroll is not negative at the end of a render pass.
C20_ScrollNotNegative == [][ RenderPass => scroll' >= 0 ]_vars

====
